---- MODULE Spec2Model ----
(***************************************************************************)
(* A model of google_asr_sin.py: the QuickSIN keyword table ingestion,     *)
(* the flattening of a recognition response into words, the recognition   *)
(* engine's request construction and the batch recognition loop.          *)
(*                                                                         *)
(* Python strings are modelled as sequences of one-character strings, so   *)
(* that strip, lower, slicing, split and int() act on characters as the    *)
(* interpreter does.  A TLA+ string holds the characters up to U+00FF;     *)
(* the character tables below cover that range (this file is UTF-8).       *)
(***************************************************************************)
EXTENDS Integers, Sequences, FiniteSets, TLC

VARIABLES
  \* ingest_spin_keyword_lists: its argument, loop position and locals
  key_word_input,    \* the key_word_list argument (a list of lines)
  line_no,           \* index of the next line the for loop takes (1-based)
  list_number,       \* local list_number (Unbound before the first parse)
  sentence_number,   \* local sentence_number
  all_keyword_dict,  \* the dictionary being built
  printed,           \* keys of the lines the warning was printed for
  ingest_pc,         \* "idle", "loop", "returned" or "ValueError"
  \* parse_transcript: its argument, loop position and locals
  response,          \* the response argument: a list of result segments
  seg_no,            \* index of the next segment the for loop takes
  words,             \* the list of RecogResult being built
  start_time,        \* local start_time (Unbound before the first word)
  end_time,          \* local end_time (Unbound before the first word)
  parse_pc,          \* "idle", "loop", "returned" or "UnboundLocalError"
  \* RecognitionEngine: its attributes ("absent" until an assignment)
  _client, _model, _project, _location, _spoken_punct, _auto_punct,
  _recognizer_config,
  last_request,      \* the request the engine passed to recognize() last
  engine_error,      \* how the last direct call on the engine ended
  \* recognize_all_spin: its argument, loop position and locals
  all_wavs,          \* the all_wavs argument (a list of paths)
  wav_no,            \* index of the next path the for loop takes
  all_results,       \* the dictionary being built
  calls,             \* the RecognizeFile calls made: path, request sent
  batch_pc,          \* "idle", "loop", "returned" or "raised"
  setup_calls        \* engine set-up calls made before the batch

ingest_vars == <<key_word_input, line_no, list_number, sentence_number,
                 all_keyword_dict, printed, ingest_pc>>

parse_vars == <<response, seg_no, words, start_time, end_time, parse_pc>>

engine_vars == <<_client, _model, _project, _location, _spoken_punct,
                 _auto_punct, _recognizer_config, last_request, engine_error>>

batch_vars == <<all_wavs, wav_no, all_results, calls, batch_pc, setup_calls>>

vars == <<ingest_vars, parse_vars, engine_vars, batch_vars>>

----------------------------------------------------------------------------
(* Bounds of the generated inputs *)

\* most keyword tokens on a generated line
MaxTokens == 6
\* most lines in a generated multi-line table
MaxLines == 3
\* most words in an alternative of a generated response
MaxWords == 2
\* most result segments in a generated response
MaxSegments == 2
\* most paths in a generated all_wavs list
MaxFiles == 3
\* most engine set-up calls before a batch
MaxSetupCalls == 2

----------------------------------------------------------------------------
(* Python values *)

\* a local variable no assignment has bound yet, and one bound to v
Unbound == <<>>
Bound(v) == <<v>>

(* Python string primitives *)

\* the characters str.lower() changes, and what it changes each one to
UpperCase == <<"A","B","C","D","E","F","G","H","I","J","K","L","M","N","O","P","Q","R","S","T","U","V","W","X","Y","Z","À","Á","Â","Ã","Ä","Å","Æ","Ç","È","É","Ê","Ë","Ì","Í","Î","Ï","Ð","Ñ","Ò","Ó","Ô","Õ","Ö","Ø","Ù","Ú","Û","Ü","Ý","Þ">>
LowerCase == <<"a","b","c","d","e","f","g","h","i","j","k","l","m","n","o","p","q","r","s","t","u","v","w","x","y","z","à","á","â","ã","ä","å","æ","ç","è","é","ê","ë","ì","í","î","ï","ð","ñ","ò","ó","ô","õ","ö","ø","ù","ú","û","ü","ý","þ">>
Digits == <<"0","1","2","3","4","5","6","7","8","9">>

\* the characters str.strip() removes, those with str.isspace(): tab, line
\* feed, vertical tab, form feed, carriage return, U+001C..U+001F, space,
\* U+0085 and U+00A0.  (The Unicode spaces from U+1680 on lie outside the
\* range of a TLA+ string.)
Whitespace == {"\t", "\n", "", "\f", "\r", "", "", "", "", " ", "", " "}

\* the characters int() skips around the number: the same without
\* U+001C..U+001F
IntWhitespace == {"\t", "\n", "", "\f", "\r", " ", "", " "}

RECURSIVE lstrip(_)
lstrip(s) ==
  IF s # <<>> /\ Head(s) \in Whitespace THEN lstrip(Tail(s)) ELSE s

RECURSIVE rstrip(_)
rstrip(s) ==
  IF s # <<>> /\ s[Len(s)] \in Whitespace
  THEN rstrip(SubSeq(s, 1, Len(s) - 1)) ELSE s

\* str.strip()
strip(s) == rstrip(lstrip(s))

lower_char(c) ==
  IF \E i \in DOMAIN UpperCase : UpperCase[i] = c
  THEN LowerCase[CHOOSE i \in DOMAIN UpperCase : UpperCase[i] = c]
  ELSE c

\* str.lower() without any case mapping: a mutation of lower
lower_identity(s) == s

\* str.lower()
lower(s) == [i \in 1..Len(s) |-> lower_char(s[i])]

\* s[a:b] with 0 <= a <= b (Python's 0-based, end-exclusive slice)
Slice(s, a, b) == SubSeq(s, a + 1, IF b < Len(s) THEN b ELSE Len(s))

RECURSIVE int_lstrip(_)
int_lstrip(s) ==
  IF s # <<>> /\ Head(s) \in IntWhitespace THEN int_lstrip(Tail(s)) ELSE s

RECURSIVE int_rstrip(_)
int_rstrip(s) ==
  IF s # <<>> /\ s[Len(s)] \in IntWhitespace
  THEN int_rstrip(SubSeq(s, 1, Len(s) - 1)) ELSE s

\* the text int() reads the number from
int_strip(s) == int_rstrip(int_lstrip(s))

IsDigit(c) == \E i \in 1..10 : Digits[i] = c
DigitVal(c) == (CHOOSE i \in 1..10 : Digits[i] = c) - 1

Unsigned(t) == IF t # <<>> /\ Head(t) \in {"+", "-"} THEN Tail(t) ELSE t

\* int(s) succeeds: optional surrounding whitespace, optional sign, digits.
\* (Underscore separators need three characters; the callers pass two.)
int_ok(s) ==
  LET u == Unsigned(int_strip(s))
  IN  u # <<>> /\ \A i \in 1..Len(u) : IsDigit(u[i])

RECURSIVE DigitsValue(_)
DigitsValue(u) ==
  IF u = <<>> THEN 0
  ELSE 10 * DigitsValue(SubSeq(u, 1, Len(u) - 1)) + DigitVal(u[Len(u)])

\* int(s) when int_ok(s)
int(s) ==
  LET t == int_strip(s)
  IN  IF Head(t) = "-" THEN 0 - DigitsValue(Unsigned(t))
      ELSE DigitsValue(Unsigned(t))

\* s.split(sep) for a one-character separator: empty pieces are kept
RECURSIVE split(_, _)
split(s, sep) ==
  IF \A i \in 1..Len(s) : s[i] # sep THEN <<s>>
  ELSE LET i == CHOOSE i \in 1..Len(s) :
                  s[i] = sep /\ \A j \in 1..(i - 1) : s[j] # sep
       IN  <<SubSeq(s, 1, i - 1)>> \o split(SubSeq(s, i + 1, Len(s)), sep)

----------------------------------------------------------------------------
(* The embedded table and the keyword parser *)

key_word_list == <<
  <<>>,
  <<"L"," ","0"," ","S"," ","0"," "," ","w","h","i","t","e"," ","s","i","l","k"," ","j","a","c","k","e","t"," ","a","n","y"," ","s","h","o","e","s">>,
  <<"L"," ","0"," ","S"," ","1"," "," ","c","h","i","l","d"," ","c","r","a","w","l","e","d"," ","i","n","t","o"," ","d","e","n","s","e"," ","g","r","a","s","s">>,
  <<"L"," ","0"," ","S"," ","2"," "," ","F","o","o","t","p","r","i","n","t","s"," ","s","h","o","w","/","s","h","o","w","e","d"," ","p","a","t","h"," ","t","o","o","k"," ","b","e","a","c","h">>,
  <<"L"," ","0"," ","S"," ","3"," "," ","e","v","e","n","t"," ","n","e","a","r"," ","e","d","g","e"," ","f","r","e","s","h"," ","a","i","r">>,
  <<"L"," ","0"," ","S"," ","4"," "," ","b","a","n","d"," ","S","t","e","e","l"," ","3","/","t","h","r","e","e"," ","i","n","c","h","e","s","/","i","n"," ","w","i","d","e">>,
  <<"L"," ","0"," ","S"," ","5"," "," ","w","e","i","g","h","t"," ","p","a","c","k","a","g","e"," ","s","e","e","n"," ","h","i","g","h"," ","s","c","a","l","e">>,
  <<>>,
  <<"L"," ","1"," ","S"," ","0"," "," ","t","e","a","r","/","T","a","r","a"," ","t","h","i","n"," ","s","h","e","e","t"," ","y","e","l","l","o","w"," ","p","a","d">>,
  <<"L"," ","1"," ","S"," ","1"," "," ","c","r","u","i","s","e"," ","W","a","t","e","r","s"," ","S","l","e","e","k"," ","y","a","c","h","t"," ","f","u","n">>,
  <<"L"," ","1"," ","S"," ","2"," "," ","s","t","r","e","a","k"," ","c","o","l","o","r"," ","d","o","w","n"," ","l","e","f","t"," ","E","d","g","e">>,
  <<"L"," ","1"," ","S"," ","3"," "," ","d","o","n","e"," ","b","e","f","o","r","e"," ","b","o","y","/","b","o","y","s"," ","s","e","e"," ","i","t">>,
  <<"L"," ","1"," ","S"," ","4"," "," ","C","r","o","u","c","h"," ","b","e","f","o","r","e"," ","j","u","m","p"," ","m","i","s","s"," ","m","a","r","k">>,
  <<"L"," ","1"," ","S"," ","5"," "," ","s","q","u","a","r","e"," ","p","e","g"," ","s","e","t","t","l","e"," ","r","o","u","n","d"," ","h","o","l","e">>,
  <<>>,
  <<"L"," ","2"," ","S"," ","0"," "," ","p","i","t","c","h"," ","s","t","r","a","w"," ","t","h","r","o","u","g","h"," ","d","o","o","r"," ","s","t","a","b","l","e">>,
  <<"L"," ","2"," ","S"," ","1"," "," ","s","i","n","k"," ","t","h","i","n","g"," ","w","h","i","c","h"," ","p","i","l","e","/","p","i","l","e","d"," ","d","i","s","h","e","s">>,
  <<"L"," ","2"," ","S"," ","2"," "," ","p","o","s","t"," ","n","o"," ","b","i","l","l","s"," ","o","f","f","i","c","e"," ","w","a","l","l">>,
  <<"L"," ","2"," ","S"," ","3"," "," ","d","i","m","e","s"," ","s","h","o","w","e","r","e","d","/","s","h","o","w","e","r"," ","d","o","w","n"," ","a","l","l"," ","s","i","d","e","s">>,
  <<"L"," ","2"," ","S"," ","4"," "," ","p","i","c","k"," ","c","a","r","d"," ","s","l","i","p"," ","u","n","d","e","r"," ","p","a","c","k","/","P","a","c","t">>,
  <<"L"," ","2"," ","S"," ","5"," "," ","s","t","o","r","e"," ","j","a","m","m","e","d"," ","b","e","f","o","r","e"," ","s","a","l","e"," ","s","t","a","r","t">>,
  <<>>,
  <<"L"," ","3"," ","S"," ","0"," "," ","s","e","n","s","e"," ","s","m","e","l","l"," ","b","e","t","t","e","r"," ","t","h","a","n"," ","t","o","u","c","h">>,
  <<"L"," ","3"," ","S"," ","1"," "," ","p","i","c","k","e","d"," ","u","p"," ","d","i","c","e"," ","s","e","c","o","n","d"," ","r","o","l","l">>,
  <<"L"," ","3"," ","S"," ","2"," "," ","d","r","o","p"," ","a","s","h","e","s"," ","w","o","r","n","/","W","a","r","r","e","n"," ","O","l","d"," ","r","u","g">>,
  <<"L"," ","3"," ","S"," ","3"," "," ","c","o","u","c","h"," ","c","o","v","e","r"," ","H","a","l","l"," ","d","r","a","p","e","s"," ","b","l","u","e">>,
  <<"L"," ","3"," ","S"," ","4"," "," ","s","t","e","m","s"," ","T","a","l","l"," ","G","l","a","s","s","e","s"," ","c","r","a","c","k","e","d"," ","b","r","o","k","e">>,
  <<"L"," ","3"," ","S"," ","5"," "," ","c","l","e","a","t","s"," ","s","a","n","k","/","s","i","n","k"," ","d","e","e","p","l","y"," ","s","o","f","t"," ","t","u","r","f">>,
  <<>>,
  <<"L"," ","4"," ","S"," ","0"," "," ","h","a","v","e"," ","b","e","t","t","e","r"," ","t","h","a","n"," ","w","a","i","t"," ","H","o","p","e">>,
  <<"L"," ","4"," ","S"," ","1"," "," ","s","c","r","e","e","n"," ","b","e","f","o","r","e"," ","f","i","r","e"," ","k","e","p","t"," ","S","p","a","r","k","s">>,
  <<"L"," ","4"," ","S"," ","2"," "," ","t","h","i","c","k"," ","g","l","a","s","s","e","s"," ","h","e","l","p","e","d","/","h","e","l","p"," ","r","e","a","d"," ","p","r","i","n","t","/","p","r","i","n","t","s">>,
  <<"L"," ","4"," ","S"," ","3"," "," ","c","h","a","i","r"," ","l","o","o","k","e","d"," ","s","t","r","o","n","g"," ","n","o"," ","b","o","t","t","o","m">>,
  <<"L"," ","4"," ","S"," ","4"," "," ","t","o","l","d"," ","w","i","l","d"," ","T","a","l","e","s","/","t","a","i","l","s"," ","f","r","i","g","h","t","e","n"," ","h","i","m">>,
  <<"L"," ","4"," ","S"," ","5"," "," ","f","o","r","c","e"," ","e","q","u","a","l"," ","w","o","u","l","d"," ","m","o","v","e"," ","E","a","r","t","h">>,
  <<>>,
  <<"L"," ","5"," ","S"," ","0"," "," ","l","e","a","f"," ","d","r","i","f","t","s"," ","a","l","o","n","g"," ","s","l","o","w"," ","s","p","i","n">>,
  <<"L"," ","5"," ","S"," ","1"," "," ","p","e","n","c","i","l"," ","c","u","t"," ","s","h","a","r","p"," ","b","o","t","h"," ","e","n","d","s">>,
  <<"L"," ","5"," ","S"," ","2"," "," ","d","o","w","n"," ","r","o","a","d"," ","w","a","y"," ","g","r","a","i","n"," ","f","a","r","m","e","r">>,
  <<"L"," ","5"," ","S"," ","3"," "," ","b","e","s","t"," ","m","e","t","h","o","d"," ","f","i","x"," ","p","l","a","c","e"," ","c","l","i","p","s">>,
  <<"L"," ","5"," ","S"," ","4"," "," ","i","f"," ","M","u","m","b","l","e"," ","y","o","u","r"," ","s","p","e","e","c","h"," ","l","o","s","t">>,
  <<"L"," ","5"," ","S"," ","5"," "," ","t","o","a","d"," ","F","r","o","g"," ","h","a","r","d"," ","t","e","l","l"," ","a","p","a","r","t">>,
  <<>>,
  <<"L"," ","6"," ","S"," ","0"," "," ","k","i","t","e"," ","d","i","p","p","e","d"," ","s","w","a","y","e","d","/","s","u","e","d","e"," ","s","t","a","y","e","d"," ","a","l","o","f","t","/","l","o","f","t">>,
  <<"L"," ","6"," ","S"," ","1"," "," ","b","e","a","t","l","e","/","b","e","e","t","l","e"," ","d","r","o","w","n","e","d"," ","h","o","t"," ","J","u","n","e","/","T","u","n","e","s"," ","s","u","n","/","s","o","n">>,
  <<"L"," ","6"," ","S"," ","2"," "," ","t","h","e","f","t"," ","P","e","a","r","l"," ","p","i","n"," ","K","e","p","t"," ","S","e","c","r","e","t">>,
  <<"L"," ","6"," ","S"," ","3"," "," ","w","i","d","e"," ","g","r","i","n"," ","e","a","r","n","e","d"," ","m","a","n","y"," ","f","r","i","e","n","d","s">>,
  <<"L"," ","6"," ","S"," ","4"," "," ","h","u","r","d","l","e"," ","p","i","t"," ","a","i","d"," ","l","o","n","g"," ","P","o","l","e">>,
  <<"L"," ","6"," ","S"," ","5"," "," ","P","e","e","p","/","k","e","e","p"," ","u","n","d","e","r"," ","t","e","n","t"," ","s","e","e"," ","C","l","o","w","n">>,
  <<>>,
  <<"L"," ","7"," ","S"," ","0"," "," ","s","u","n"," ","c","a","m","e"," ","l","i","g","h","t"," ","E","a","s","t","e","r","n"," ","s","k","y">>,
  <<"L"," ","7"," ","S"," ","1"," "," ","s","t","a","l","e"," ","s","m","e","l","l"," ","o","l","d"," ","b","e","e","r"," ","l","i","n","g","e","r","s">>,
  <<"L"," ","7"," ","S"," ","2"," "," ","d","e","s","k"," ","f","i","r","m"," ","o","n"," ","s","h","a","k","y"," ","f","l","o","o","r">>,
  <<"L"," ","7"," ","S"," ","3"," "," ","l","i","s","t"," ","n","a","m","e","s"," ","c","a","r","v","e","d"," ","a","r","o","u","n","d"," ","b","a","s","e">>,
  <<"L"," ","7"," ","S"," ","4"," "," ","n","e","w","s"," ","s","t","r","u","c","t","/","s","t","r","u","c","k"," ","o","u","t"," ","R","e","s","t","l","e","s","s"," ","M","i","n","d","s">>,
  <<"L"," ","7"," ","S"," ","5"," "," ","S","a","n","d"," ","d","r","i","f","t","s","/","D","r","i","f","t"," ","o","v","e","r"," ","s","i","l","l","/","s","a","l","e"," ","h","o","u","s","e">>,
  <<>>,
  <<"L"," ","8"," ","S"," ","0"," "," ","t","a","k","e"," ","s","h","e","l","t","e","r"," ","t","e","n","t"," ","k","e","e","p"," ","s","t","i","l","l">>,
  <<"L"," ","8"," ","S"," ","1"," "," ","L","i","t","t","l","e"," ","T","a","l","e","s","/","t","a","i","l","s"," ","t","h","e","y"," ","t","e","l","l"," ","f","a","l","s","e">>,
  <<"L"," ","8"," ","S"," ","2"," "," ","p","r","e","s","s"," ","p","e","d","a","l"," ","w","i","t","h"," ","l","e","f","t"," ","f","o","o","t">>,
  <<"L"," ","8"," ","S"," ","3"," "," ","b","l","a","c","k"," ","t","r","u","n","k"," ","f","e","l","l"," ","f","r","o","m"," ","L","a","n","d","i","n","g","/","l","a","n","d","i","n","g","s">>,
  <<"L"," ","8"," ","S"," ","4"," "," ","c","h","e","a","p"," ","c","l","o","t","h","e","s"," ","f","l","a","s","h","y","/","f","l","a","s","h"," ","d","o","n","'","t"," ","l","a","s","t">>,
  <<"L"," ","8"," ","S"," ","5"," "," ","n","i","g","h","t"," ","a","l","a","r","m"," ","r","o","u","s","e","d","/","r","o","u","s","t"," ","d","e","e","p"," ","s","l","e","e","p">>,
  <<>>,
  <<"L"," ","9"," ","S"," ","0"," "," ","d","o","t","s"," ","l","i","g","h","t"," ","b","e","t","r","a","y","/","b","e","t","r","a","y","e","d"," ","b","l","a","c","k"," ","c","a","t">>,
  <<"L"," ","9"," ","S"," ","1"," "," ","p","u","t"," ","c","h","a","r","t"," ","m","a","n","t","l","e"," ","T","a","c","k"," ","d","o","w","n">>,
  <<"L"," ","9"," ","S"," ","2"," "," ","s","t","e","a","d","y"," ","d","r","i","p"," ","w","o","r","s","e"," ","d","r","e","n","c","h","i","n","g"," ","r","a","i","n">>,
  <<"L"," ","9"," ","S"," ","3"," "," ","f","l","a","t"," ","p","a","c","k"," ","l","e","s","s"," ","l","u","g","g","a","g","e"," ","s","p","a","c","e">>,
  <<"L"," ","9"," ","S"," ","4"," "," ","g","l","o","s","s","/","g","l","a","s","s"," ","t","o","p"," ","m","a","d","e"," ","u","n","f","i","t"," ","r","e","a","d">>,
  <<"L"," ","9"," ","S"," ","5"," "," ","S","e","v","e","n"," ","S","e","a","l","s"," ","s","t","a","m","p","e","d"," ","g","r","e","a","t"," ","s","h","e","e","t","s">>,
  <<>>,
  <<"L","1","0"," ","S"," ","0"," "," ","m","a","r","s","h"," ","f","r","e","e","z","e"," ","w","h","e","n"," ","c","o","l","d"," ","e","n","o","u","g","h">>,
  <<"L","1","0"," ","S"," ","1"," "," ","g","r","a","y"," ","m","a","r","e"," ","w","a","l","k","e","d"," ","b","e","f","o","r","e"," ","c","o","l","t","/","c","o","l","d">>,
  <<"L","1","0"," ","S"," ","2"," "," ","b","o","t","t","l","e","s"," ","h","o","l","d"," ","f","o","u","r","/","f","o","r"," ","k","i","n","d","s"," ","r","u","m">>,
  <<"L","1","0"," ","S"," ","3"," "," ","w","h","e","e","l","e","d","/","w","h","e","l","e","d"," ","b","i","k","e"," ","p","a","s","t"," ","w","i","n","d","i","n","g"," ","r","o","a","d">>,
  <<"L","1","0"," ","S"," ","4"," "," ","t","h","r","o","w"," ","u","s","e","d"," ","p","a","p","e","r"," ","c","u","p"," ","p","l","a","t","e">>,
  <<"L","1","0"," ","S"," ","5"," "," ","w","a","l","l"," ","p","h","o","n","e"," ","r","i","n","g"," ","l","o","u","d"," ","o","f","t","e","n">>,
  <<>>,
  <<"L","1","1"," ","S"," ","0"," "," ","h","i","n","g","e"," ","d","o","o","r"," ","c","r","e","a","k","e","d"," ","o","l","d"," ","a","g","e">>,
  <<"L","1","1"," ","S"," ","1"," "," ","b","r","i","g","h","t"," ","l","a","n","t","e","r","n","s"," ","G","a","y"," ","d","a","r","k"," ","l","a","w","n">>,
  <<"L","1","1"," ","S"," ","2"," "," ","o","f","f","e","r","e","d"," ","p","r","o","o","f"," "," ","f","o","r","m"," ","l","a","r","g","e"," ","c","h","a","r","t">>,
  <<"L","1","1"," ","S"," ","3"," "," ","t","h","e","i","r"," ","e","y","e","l","i","d","s"," ","d","r","o","o","p","/","d","r","o","p"," ","w","a","n","t"," ","s","l","e","e","p">>,
  <<"L","1","1"," ","S"," ","4"," "," ","m","a","n","y"," ","w","a","y","s"," ","d","o"," ","t","h","e","s","e"," ","t","h","i","n","g","s">>,
  <<"L","1","1"," ","S"," ","5"," "," ","w","e"," ","l","i","k","e"," ","s","e","e"," ","c","l","e","a","r"," ","w","e","a","t","h","e","r">>,
  <<>>
>>

\* word_alternatives(words)
word_alternatives(w) ==
  IF \E i \in 1..Len(w) : w[i] = "/" THEN split(w, "/") ELSE <<w>>

\* line = line.strip().lower()
normalized(raw) == lower(strip(raw))

list_field(line) == Slice(line, 1, 3)
sentence_field(line) == Slice(line, 5, 7)

\* reads the list columns again: a mutation of sentence_number_of
sentence_number_from_list_field(line) == int(list_field(line))

\* int(line[1:3])
list_number_of(line) == int(list_field(line))

\* int(line[5:7])
sentence_number_of(line) == int(sentence_field(line))

NonEmpty(w) == w # <<>>

\* key_words = [w for w in line[7:].split(' ') if w]
key_words_of(line) ==
  SelectSeq(split(Slice(line, 7, Len(line)), " "), NonEmpty)

\* key_list = [word_alternatives(w) for w in key_words]
key_list_of(line) ==
  LET kw == key_words_of(line)
  IN  [i \in 1..Len(kw) |-> word_alternatives(kw[i])]

\* d[k] = v
DictPut(d, k, v) ==
  [x \in DOMAIN d \cup {k} |-> IF x = k THEN v ELSE d[x]]

EmptyDict == [x \in {} |-> <<>>]

CurLine == normalized(key_word_input[line_no])

InLoop == ingest_pc = "loop" /\ line_no <= Len(key_word_input)

\* if not line: continue
IngestSkipBlank ==
  /\ InLoop
  /\ CurLine = <<>>
  /\ line_no' = line_no + 1
  /\ UNCHANGED <<key_word_input, list_number, sentence_number,
                 all_keyword_dict, printed, ingest_pc>>
  /\ UNCHANGED <<parse_vars, engine_vars, batch_vars>>

\* int() raises ValueError on the list or the sentence field
IngestRaise ==
  /\ InLoop
  /\ CurLine # <<>>
  /\ \/ ~int_ok(list_field(CurLine))
     \/ ~int_ok(sentence_field(CurLine))
  /\ ingest_pc' = "ValueError"
  /\ list_number' = IF int_ok(list_field(CurLine))
                    THEN Bound(list_number_of(CurLine)) ELSE list_number
  /\ UNCHANGED <<key_word_input, line_no, sentence_number,
                 all_keyword_dict, printed>>
  /\ UNCHANGED <<parse_vars, engine_vars, batch_vars>>

\* drops a line whose keyword count is not 5: a mutation of IngestInsert
IngestInsertStrict ==
  /\ InLoop
  /\ CurLine # <<>>
  /\ int_ok(list_field(CurLine))
  /\ int_ok(sentence_field(CurLine))
  /\ list_number' = Bound(list_number_of(CurLine))
  /\ sentence_number' = Bound(sentence_number_of(CurLine))
  /\ all_keyword_dict' =
       IF Len(key_list_of(CurLine)) # 5 THEN all_keyword_dict
       ELSE DictPut(all_keyword_dict,
                    <<list_number_of(CurLine), sentence_number_of(CurLine)>>,
                    key_list_of(CurLine))
  /\ printed' = printed
  /\ line_no' = line_no + 1
  /\ UNCHANGED <<key_word_input, ingest_pc>>
  /\ UNCHANGED <<parse_vars, engine_vars, batch_vars>>

\* the rest of the loop body: parse, warn when not 5 entries, insert
IngestInsert ==
  /\ InLoop
  /\ CurLine # <<>>
  /\ int_ok(list_field(CurLine))
  /\ int_ok(sentence_field(CurLine))
  /\ LET l == list_number_of(CurLine)
         s == sentence_number_of(CurLine)
         key_list == key_list_of(CurLine)
     IN  /\ list_number' = Bound(l)
         /\ sentence_number' = Bound(s)
         /\ printed' = IF Len(key_list) # 5
                       THEN Append(printed, <<l, s>>) ELSE printed
         /\ all_keyword_dict' = DictPut(all_keyword_dict, <<l, s>>, key_list)
  /\ line_no' = line_no + 1
  /\ UNCHANGED <<key_word_input, ingest_pc>>
  /\ UNCHANGED <<parse_vars, engine_vars, batch_vars>>

\* return all_keyword_dict
IngestReturn ==
  /\ ingest_pc = "loop"
  /\ line_no > Len(key_word_input)
  /\ ingest_pc' = "returned"
  /\ UNCHANGED <<key_word_input, line_no, list_number, sentence_number,
                 all_keyword_dict, printed>>
  /\ UNCHANGED <<parse_vars, engine_vars, batch_vars>>

----------------------------------------------------------------------------
(* Inputs of the parser *)

Tokens == {<<"a">>, <<"B","/","c">>}
Separators == {<<" ">>, <<"\t">>}
Prefixes == {<<"L"," ","0"," ","S"," ","0">>, <<"L","1","1"," ","S"," ","5">>, <<"L","0"," ","S","0">>}

RECURSIVE JoinTokens(_, _)
JoinTokens(toks, seps) ==
  IF Len(toks) = 0 THEN <<>>
  ELSE IF Len(toks) = 1 THEN toks[1]
  ELSE toks[1] \o seps[1] \o JoinTokens(Tail(toks), Tail(seps))

\* prefix, two spaces, then up to MaxTokens tokens with a space or a tab
\* between neighbours
GenLines ==
  UNION { { p \o <<" "," ">> \o JoinTokens(toks, seps) :
              p \in Prefixes,
              toks \in [1..k -> Tokens],
              seps \in [1..(IF k > 0 THEN k - 1 ELSE 0) -> Separators] } :
          k \in 0..MaxTokens }

\* blank lines, lines padded with a form feed or U+001C, a form feed or
\* U+001F inside a number field, a form feed between two words, short and
\* overlong lines
ShortLines == {
  <<>>,
  <<" ","\f","\t">>,
  <<"L"," ","0"," ","S"," ","0">>,
  <<"","L"," ","0"," ","S"," ","1"," "," ","a"," ","B","/","c"," ","d"," ","e","\f">>,
  <<"L"," ","4"," ","S","","2"," "," ","a"," ","b"," ","c"," ","d"," ","e">>,
  <<"L","\f","0"," ","S"," ","0"," "," ","A"," ","b"," "," ","c"," ","D","/","e"," ","f">>,
  <<"L"," ","2"," ","S"," ","3"," "," ","a"," ","b","\f","c"," ","d"," ","e">>,
  <<"L","1","0"," ","S"," ","2"," "," ","a"," ","b"," ","c"," ","d"," ","e"," ","f">>,
  <<"L"," ","3">>,
  <<"L"," ","1"," ","S"," ","1","0"," ","a"," ","b"," ","c"," ","d"," ","e">> }

ShortTables == UNION { [1..n -> ShortLines] : n \in 0..MaxLines }

IngestInputs ==
  {key_word_list} \cup { <<l>> : l \in GenLines } \cup ShortTables

\* the locals of a call of ingest_spin_keyword_lists on key_word_list
IngestCalled(input) ==
  /\ key_word_input = input
  /\ line_no = 1
  /\ list_number = Unbound
  /\ sentence_number = Unbound
  /\ all_keyword_dict = EmptyDict
  /\ printed = <<>>
  /\ ingest_pc = "loop"

\* no call of ingest_spin_keyword_lists is under way
IngestIdle ==
  /\ key_word_input = <<>>
  /\ line_no = 1
  /\ list_number = Unbound
  /\ sentence_number = Unbound
  /\ all_keyword_dict = EmptyDict
  /\ printed = <<>>
  /\ ingest_pc = "idle"

\* no call of parse_transcript is under way
ParseIdle ==
  /\ response = <<>>
  /\ seg_no = 1
  /\ words = <<>>
  /\ start_time = Unbound
  /\ end_time = Unbound
  /\ parse_pc = "idle"

NoContent == [kind |-> "none", of |-> <<>>]

\* a RecognitionConfig: its decoding choice and the fields the code sets
Config(decoding, rate, locale, model, timings, auto, spoken) ==
  [decoding |-> decoding,
   sample_rate_hertz |-> rate,
   language_codes |-> <<locale>>,
   model |-> model,
   enable_word_time_offsets |-> timings,
   enable_automatic_punctuation |-> auto,
   enable_spoken_punctuation |-> spoken]

\* the _recognizer_config attribute does not exist
NoConfig == Config("absent", 0, "", "", FALSE, FALSE, FALSE)

NoRequest == [recognizer |-> <<>>, config |-> NoConfig, content |-> NoContent]

\* RecognitionEngine(): _client = None, _parent = None, nothing else
EngineNew ==
  /\ _client = "None"
  /\ _model = "absent"
  /\ _project = "absent"
  /\ _location = "absent"
  /\ _spoken_punct = FALSE
  /\ _auto_punct = FALSE
  /\ _recognizer_config = NoConfig
  /\ last_request = NoRequest
  /\ engine_error = "none"

\* no call of recognize_all_spin is under way
BatchIdle ==
  /\ all_wavs = <<>>
  /\ wav_no = 1
  /\ all_results = EmptyDict
  /\ calls = <<>>
  /\ batch_pc = "idle"
  /\ setup_calls = 0

InitIngest ==
  /\ \E input \in IngestInputs : IngestCalled(input)
  /\ ParseIdle
  /\ EngineNew
  /\ BatchIdle

NextIngest ==
  \/ IngestSkipBlank
  \/ IngestRaise
  \/ IngestInsert
  \/ IngestReturn

SpecIngest == InitIngest /\ [][NextIngest]_vars

----------------------------------------------------------------------------
(* parse_transcript *)

\* datetime.timedelta.total_seconds(): the float seconds + microseconds/1e6,
\* represented here by its count of microseconds
total_seconds(td) == td.seconds * 1000000 + td.microseconds

\* parse_time(time_proto)
parse_time(time_proto) == total_seconds(time_proto)

\* RecogResult(word, start_time, end_time)
RecogResult(w, s, e) == [word |-> w, start_time |-> s, end_time |-> e]

CurResult == response[seg_no]

\* A result segment is [has_alternatives, alternatives]: has_alternatives is
\* FALSE when reading a_result.alternatives raises.
\* try: ok = len(a_result.alternatives) > 0  except: ok = False
ok_of(a_result) ==
  IF ~a_result.has_alternatives THEN FALSE
  ELSE Len(a_result.alternatives) > 0

\* the RecogResult of every word of the first alternative, in order
word_results(a_result) ==
  LET ws == a_result.alternatives[1].words
  IN  [i \in 1..Len(ws) |->
         RecogResult(lower(ws[i].word),
                     parse_time(ws[i].start_offset),
                     parse_time(ws[i].end_offset))]

ParseInLoop == parse_pc = "loop" /\ seg_no <= Len(response)

\* if not ok: continue
ParseSkip ==
  /\ ParseInLoop
  /\ ~ok_of(CurResult)
  /\ seg_no' = seg_no + 1
  /\ UNCHANGED <<response, words, start_time, end_time, parse_pc>>
  /\ UNCHANGED <<ingest_vars, engine_vars, batch_vars>>

\* the inner loop over the words, then the '.' sentinel at end_time, the
\* local the inner loop assigned last (in this segment or an earlier one)
ParseSegment ==
  /\ ParseInLoop
  /\ ok_of(CurResult)
  /\ LET rs == word_results(CurResult)
     IN  /\ (Len(rs) > 0 \/ end_time # Unbound)
         /\ start_time' = IF Len(rs) > 0 THEN Bound(rs[Len(rs)].start_time)
                          ELSE start_time
         /\ end_time' = IF Len(rs) > 0 THEN Bound(rs[Len(rs)].end_time)
                        ELSE end_time
         /\ words' = (words \o rs)
                       \o <<RecogResult(<<".">>, end_time'[1], end_time'[1])>>
  /\ seg_no' = seg_no + 1
  /\ UNCHANGED <<response, parse_pc>>
  /\ UNCHANGED <<ingest_vars, engine_vars, batch_vars>>

\* the sentinel reads end_time before any word assigned it
ParseUnbound ==
  /\ ParseInLoop
  /\ ok_of(CurResult)
  /\ Len(CurResult.alternatives[1].words) = 0
  /\ end_time = Unbound
  /\ parse_pc' = "UnboundLocalError"
  /\ UNCHANGED <<response, seg_no, words, start_time, end_time>>
  /\ UNCHANGED <<ingest_vars, engine_vars, batch_vars>>

\* return words
ParseReturn ==
  /\ parse_pc = "loop"
  /\ seg_no > Len(response)
  /\ parse_pc' = "returned"
  /\ UNCHANGED <<response, seg_no, words, start_time, end_time>>
  /\ UNCHANGED <<ingest_vars, engine_vars, batch_vars>>

(* Inputs of parse_transcript *)

Duration(s, us) == [seconds |-> s, microseconds |-> us]

WordInfos == {
  [word |-> <<"T","h","e">>, start_offset |-> Duration(0, 0),
                    end_offset |-> Duration(0, 400000)],
  [word |-> <<"c","a","t">>, start_offset |-> Duration(0, 400000),
                    end_offset |-> Duration(1, 100000)] }

OtherWord ==
  [word |-> <<"h","a","t">>, start_offset |-> Duration(2, 0),
                    end_offset |-> Duration(2, 500000)]

WordLists == UNION { [1..n -> WordInfos] : n \in 0..MaxWords }

Alternative(ws) == [words |-> ws]

Result(has, alts) == [has_alternatives |-> has, alternatives |-> alts]

Segments ==
  {Result(FALSE, <<>>), Result(TRUE, <<>>)}
  \cup { Result(TRUE, <<Alternative(ws)>>) : ws \in WordLists }
  \cup { Result(TRUE, <<Alternative(ws), Alternative(<<OtherWord>>)>>) :
           ws \in {<<>>} \cup { <<w>> : w \in WordInfos } }

Responses == UNION { [1..n -> Segments] : n \in 0..MaxSegments }

\* the locals of a call of parse_transcript on r
ParseCalled(r) ==
  /\ response = r
  /\ seg_no = 1
  /\ words = <<>>
  /\ start_time = Unbound
  /\ end_time = Unbound
  /\ parse_pc = "loop"

InitTranscript ==
  /\ \E r \in Responses : ParseCalled(r)
  /\ IngestIdle
  /\ EngineNew
  /\ BatchIdle

NextTranscript ==
  \/ ParseSkip
  \/ ParseSegment
  \/ ParseUnbound
  \/ ParseReturn

SpecTranscript == InitTranscript /\ [][NextTranscript]_vars

----------------------------------------------------------------------------
(* RecognitionEngine *)

\* s.endswith(suffix)
endswith(s, suffix) ==
  /\ Len(s) >= Len(suffix)
  /\ SubSeq(s, Len(s) - Len(suffix) + 1, Len(s)) = suffix

\* sub in s
contains(s, sub) ==
  \E i \in 1..(Len(s) - Len(sub) + 1) : SubSeq(s, i, i + Len(sub) - 1) = sub

\* os.path.basename(p): what follows the last '/'
basename(p) ==
  LET slashes == { i \in 1..Len(p) : p[i] = "/" }
  IN  IF slashes = {} THEN p
      ELSE SubSeq(p, (CHOOSE i \in slashes : \A j \in slashes : j <= i) + 1,
                  Len(p))

\* the default of RecognizeWaveform's sample_rate
DefaultSampleRate == 16000
\* the rate of the files generate_ffmpeg_cmds produces
WavFileRate == 22050
\* the rates a caller passes, and the rates wavfile.read finds in a file
SampleRates == {DefaultSampleRate, WavFileRate}

Models == {"default_long", "chirp", "medical_conversation", "medical_dictation"}
Locales == {"en-US"}
Projects == {"my-project"}

Request(recognizer, config, content) ==
  [recognizer |-> recognizer, config |-> config, content |-> content]

\* f'projects/{self._project}/locations/{self._location}/recognizers/_'
recognizer_name == <<_project, _location>>

\* the bytes of the file at path, and the samples wavfile.read gives for it
FileContent(path) == [kind |-> "file", of |-> path]
WaveformOf(path) == [kind |-> "waveform", of |-> path]
\* a waveform the caller passes to RecognizeWaveform
BufferContent == [kind |-> "waveform", of |-> <<>>]

\* CreateSpeechClient(gcp_project, model): the attributes are assigned
\* first and self._client last, from SpeechClient(client_options), which
\* returns the client (built) or raises and leaves self._client as it was
CreateSpeechClientDo(gcp_project, model, built) ==
  /\ _model' = model
  /\ _project' = gcp_project
  /\ _spoken_punct' = FALSE
  /\ _auto_punct' = FALSE
  /\ _location' = IF model = "chirp" THEN "us-central1" ELSE "global"
  /\ _client' = IF ~built THEN _client
                ELSE IF model = "chirp"
                THEN "us-central1-speech.googleapis.com" ELSE "default"
  /\ UNCHANGED <<_recognizer_config, last_request>>

\* how CreateSpeechClient ends
ClientOutcome(built) == IF built THEN "none" ELSE "ClientError"

\* CreateRecognizer(with_timings, locale); reading self._model raises
\* AttributeError before CreateSpeechClient
CreateRecognizerDo(with_timings, locale) ==
  /\ _model # "absent"
  /\ _spoken_punct' = IF _model = "medical_conversation" THEN FALSE
                      ELSE IF _model = "medical_dictation" THEN TRUE
                      ELSE FALSE
  /\ _auto_punct' = IF _model = "medical_conversation" THEN TRUE
                    ELSE IF _model = "medical_dictation" THEN TRUE
                    ELSE FALSE
  /\ _recognizer_config' =
       Config("auto", 0, locale, _model, with_timings,
              _auto_punct', _spoken_punct')
  /\ UNCHANGED <<_client, _model, _project, _location, last_request>>

\* self._client.recognize(request): with self._client None the attribute
\* lookup raises and no request is passed
Recognize(request) ==
  last_request' = IF _client = "None" THEN last_request ELSE request

\* RecognizeWaveform(waveform, sample_rate, with_timings) up to the call of
\* self._client.recognize(request)
RecognizeWaveformDo(waveform, sample_rate, with_timings) ==
  /\ _model # "absent"
  /\ _recognizer_config' =
       Config("explicit", sample_rate, "en-US", _model, with_timings,
              _auto_punct, _spoken_punct)
  /\ Recognize(Request(recognizer_name, _recognizer_config', waveform))
  /\ UNCHANGED <<_client, _model, _project, _location, _spoken_punct,
                 _auto_punct>>

\* RecognizeFile(audio_file_path, with_timings) up to the call of
\* self._client.recognize(request), on a file that can be read: a .wav
\* path goes to RecognizeWaveform with the rate audio_fs found in the file;
\* with_timings is passed on for a .wav path only
RecognizeFileDo(audio_file_path, audio_fs, with_timings) ==
  IF endswith(audio_file_path, <<".","w","a","v">>)
  THEN RecognizeWaveformDo(WaveformOf(audio_file_path), audio_fs,
                           with_timings)
  ELSE /\ _model # "absent"
       /\ _recognizer_config # NoConfig
       /\ Recognize(Request(recognizer_name, _recognizer_config,
                            FileContent(audio_file_path)))
       /\ UNCHANGED <<_client, _model, _project, _location, _spoken_punct,
                      _auto_punct, _recognizer_config>>

\* RecognizeFile reads an attribute no call has assigned yet: on a .wav path
\* after the file was read, on another path before it is read
RecognizeFileAttributeError(audio_file_path) ==
  \/ _model = "absent"
  \/ ~endswith(audio_file_path, <<".","w","a","v">>) /\ _recognizer_config = NoConfig

\* RecognizeFile fails to read the file: a .wav path is opened first, another
\* path after the request's recognizer and config were read
RecognizeFileOSError(audio_file_path) ==
  \/ endswith(audio_file_path, <<".","w","a","v">>)
  \/ ~RecognizeFileAttributeError(audio_file_path)

Paths == {
  <<"a",".","w","a","v">>,
  <<"C","a","l","i","b","r","a","t","i","o","n","_","1",".","w","a","v">>,
  <<"d","/","b",".","f","l","a","c">>,
  <<"x","/","a",".","w","a","v">>,
  <<"C","a","l","i","b","r","a","t","i","o","n","/","c",".","f","l","a","c">> }

\* how a call on the client ends: it returns, or the service raises; on
\* self._client None the attribute lookup raises
SendOutcomes ==
  IF _client = "None" THEN {"AttributeError"} ELSE {"none", "ServiceError"}

UnchangedByEngine == UNCHANGED <<ingest_vars, parse_vars, batch_vars>>

CreateSpeechClient ==
  /\ \E project \in Projects, model \in Models, built \in BOOLEAN :
       /\ CreateSpeechClientDo(project, model, built)
       /\ engine_error' = ClientOutcome(built)
  /\ UnchangedByEngine

\* if self._client is None: self.CreateSpeechClient(gcp_project), then the
\* call of method on the client, which ends in one of outcomes
ListDo(gcp_project, outcomes) ==
  IF _client = "None"
  THEN \E built \in BOOLEAN :
         /\ CreateSpeechClientDo(gcp_project, "default_long", built)
         /\ engine_error' \in IF built THEN outcomes ELSE {"ClientError"}
  ELSE /\ engine_error' \in outcomes
       /\ UNCHANGED <<_client, _model, _project, _location, _spoken_punct,
                      _auto_punct, _recognizer_config, last_request>>

\* ListModels calls self._client.ListModels, a method SpeechClient does
\* not have
ListModels ==
  /\ \E project \in Projects : ListDo(project, {"AttributeError"})
  /\ UnchangedByEngine

\* ListRecognizers calls self._client.list_recognizers
ListRecognizers ==
  /\ \E project \in Projects : ListDo(project, {"none", "ServiceError"})
  /\ UnchangedByEngine

CreateRecognizer ==
  /\ \E with_timings \in BOOLEAN, locale \in Locales :
       CreateRecognizerDo(with_timings, locale)
  /\ engine_error' = "none"
  /\ UnchangedByEngine

CreateRecognizerRaises ==
  /\ _model = "absent"
  /\ engine_error' = "AttributeError"
  /\ UNCHANGED <<_client, _model, _project, _location, _spoken_punct,
                 _auto_punct, _recognizer_config, last_request>>
  /\ UnchangedByEngine

RecognizeFile ==
  /\ \E path \in Paths, audio_fs \in SampleRates, with_timings \in BOOLEAN :
       RecognizeFileDo(path, audio_fs, with_timings)
  /\ engine_error' \in SendOutcomes
  /\ UnchangedByEngine

\* AttributeError on an unassigned attribute, or the file cannot be read
RecognizeFileRaises ==
  /\ \E path \in Paths :
       \/ RecognizeFileAttributeError(path) /\ engine_error' = "AttributeError"
       \/ RecognizeFileOSError(path) /\ engine_error' = "OSError"
  /\ UNCHANGED <<_client, _model, _project, _location, _spoken_punct,
                 _auto_punct, _recognizer_config, last_request>>
  /\ UnchangedByEngine

RecognizeWaveform ==
  /\ \E sample_rate \in SampleRates, with_timings \in BOOLEAN :
       RecognizeWaveformDo(BufferContent, sample_rate, with_timings)
  /\ engine_error' \in SendOutcomes
  /\ UnchangedByEngine

RecognizeWaveformRaises ==
  /\ _model = "absent"
  /\ engine_error' = "AttributeError"
  /\ UNCHANGED <<_client, _model, _project, _location, _spoken_punct,
                 _auto_punct, _recognizer_config, last_request>>
  /\ UnchangedByEngine

InitEngine ==
  /\ EngineNew
  /\ BatchIdle
  /\ IngestIdle
  /\ ParseIdle

NextEngine ==
  \/ CreateSpeechClient
  \/ ListModels
  \/ ListRecognizers
  \/ CreateRecognizer
  \/ CreateRecognizerRaises
  \/ RecognizeFile
  \/ RecognizeFileRaises
  \/ RecognizeWaveform
  \/ RecognizeWaveformRaises

SpecEngine == InitEngine /\ [][NextEngine]_vars

----------------------------------------------------------------------------
(* recognize_all_spin *)

\* recognizes the Calibration files too: a mutation of is_calibration
is_calibration_never(f) == FALSE

\* 'Calibration' in f
is_calibration(f) == contains(f, <<"C","a","l","i","b","r","a","t","i","o","n">>)

\* keys by the whole path: a mutation of pretty_file
pretty_file_whole_path(f) == f

\* pretty_file = os.path.basename(f)
pretty_file(f) == basename(f)

\* the response the service returns to the n-th call, made for path
Response(path, n) == [of |-> path, call |-> n]

WavLists == UNION { [1..n -> Paths] : n \in 0..MaxFiles }

CurWav == all_wavs[wav_no]

BatchInLoop == batch_pc = "loop" /\ wav_no <= Len(all_wavs)

UnchangedByBatch == UNCHANGED <<ingest_vars, parse_vars, engine_error>>

\* the caller prepares the engine: CreateSpeechClient
SetupCreateSpeechClient ==
  /\ batch_pc = "idle"
  /\ setup_calls < MaxSetupCalls
  /\ setup_calls' = setup_calls + 1
  /\ \E project \in Projects, model \in Models, built \in BOOLEAN :
       CreateSpeechClientDo(project, model, built)
  /\ UNCHANGED <<all_wavs, wav_no, all_results, calls, batch_pc>>
  /\ UnchangedByBatch

\* the caller prepares the engine: CreateRecognizer
SetupCreateRecognizer ==
  /\ batch_pc = "idle"
  /\ setup_calls < MaxSetupCalls
  /\ setup_calls' = setup_calls + 1
  /\ \E with_timings \in BOOLEAN, locale \in Locales :
       CreateRecognizerDo(with_timings, locale)
  /\ UNCHANGED <<all_wavs, wav_no, all_results, calls, batch_pc>>
  /\ UnchangedByBatch

\* recognize_all_spin(all_wavs, asr_engine) is called: all_results = {}
BatchStart ==
  /\ batch_pc = "idle"
  /\ all_wavs' \in WavLists
  /\ batch_pc' = "loop"
  /\ UNCHANGED <<wav_no, all_results, calls, setup_calls>>
  /\ UNCHANGED engine_vars
  /\ UNCHANGED <<ingest_vars, parse_vars>>

\* if 'Calibration' in f: continue
BatchSkipCalibration ==
  /\ BatchInLoop
  /\ is_calibration(CurWav)
  /\ wav_no' = wav_no + 1
  /\ UNCHANGED <<all_wavs, all_results, calls, batch_pc, setup_calls>>
  /\ UNCHANGED engine_vars
  /\ UNCHANGED <<ingest_vars, parse_vars>>

\* resp = asr_engine.RecognizeFile(f, with_timings=True);
\* all_results[pretty_file] = resp
BatchRecognize ==
  /\ BatchInLoop
  /\ ~is_calibration(CurWav)
  /\ _client # "None"
  /\ \E audio_fs \in SampleRates : RecognizeFileDo(CurWav, audio_fs, TRUE)
  /\ calls' = Append(calls, [file |-> CurWav, request |-> last_request'])
  /\ all_results' = DictPut(all_results, pretty_file(CurWav),
                            Response(CurWav, Len(calls) + 1))
  /\ wav_no' = wav_no + 1
  /\ UNCHANGED <<all_wavs, batch_pc, setup_calls>>
  /\ UnchangedByBatch

\* RecognizeFile raises before any request is built (AttributeError on an
\* unassigned attribute, or the file cannot be read) and the exception
\* leaves recognize_all_spin
BatchRaiseBeforeSend ==
  /\ BatchInLoop
  /\ ~is_calibration(CurWav)
  /\ RecognizeFileAttributeError(CurWav) \/ RecognizeFileOSError(CurWav)
  /\ calls' = Append(calls, [file |-> CurWav, request |-> NoRequest])
  /\ batch_pc' = "raised"
  /\ UNCHANGED <<all_wavs, wav_no, all_results, setup_calls>>
  /\ UNCHANGED engine_vars
  /\ UNCHANGED <<ingest_vars, parse_vars>>

\* self._client.recognize(request) raises and the exception leaves
\* recognize_all_spin
BatchRaiseAfterSend ==
  /\ BatchInLoop
  /\ ~is_calibration(CurWav)
  /\ _client # "None"
  /\ \E audio_fs \in SampleRates : RecognizeFileDo(CurWav, audio_fs, TRUE)
  /\ calls' = Append(calls, [file |-> CurWav, request |-> last_request'])
  /\ batch_pc' = "raised"
  /\ UNCHANGED <<all_wavs, wav_no, all_results, setup_calls>>
  /\ UnchangedByBatch

\* self._client is None: RecognizeFile builds the request, the lookup of
\* recognize raises AttributeError, and the exception leaves
\* recognize_all_spin
BatchRaiseNoClient ==
  /\ BatchInLoop
  /\ ~is_calibration(CurWav)
  /\ _client = "None"
  /\ \E audio_fs \in SampleRates : RecognizeFileDo(CurWav, audio_fs, TRUE)
  /\ calls' = Append(calls, [file |-> CurWav, request |-> NoRequest])
  /\ batch_pc' = "raised"
  /\ UNCHANGED <<all_wavs, wav_no, all_results, setup_calls>>
  /\ UnchangedByBatch

\* return all_results
BatchReturn ==
  /\ batch_pc = "loop"
  /\ wav_no > Len(all_wavs)
  /\ batch_pc' = "returned"
  /\ UNCHANGED <<all_wavs, wav_no, all_results, calls, setup_calls>>
  /\ UNCHANGED engine_vars
  /\ UNCHANGED <<ingest_vars, parse_vars>>

NextBatch ==
  \/ SetupCreateSpeechClient
  \/ SetupCreateRecognizer
  \/ BatchStart
  \/ BatchSkipCalibration
  \/ BatchRecognize
  \/ BatchRaiseBeforeSend
  \/ BatchRaiseAfterSend
  \/ BatchRaiseNoClient
  \/ BatchReturn

SpecBatch == InitEngine /\ [][NextBatch]_vars

----------------------------------------------------------------------------
(* Properties of the keyword parser *)

UpperChars == { UpperCase[i] : i \in DOMAIN UpperCase }

\* the number of maximal runs of characters that are not in seps
TokenCount(s, seps) ==
  Cardinality({ i \in 1..Len(s) :
                  s[i] \notin seps /\ (i = 1 \/ s[i - 1] \in seps) })

\* what follows the seven prefix columns
Remainder(t) == Slice(t, 7, Len(t))

\* 'L', the list number in columns 1-2, 'S' in column 4, the sentence
\* number in columns 5-6 (0-based), as in every line of the embedded table
ValidPrefix(t) ==
  /\ Len(t) >= 7
  /\ t[1] \in {"L", "l"}
  /\ t[5] \in {"S", "s"}
  /\ int_ok(Slice(t, 1, 3))
  /\ int_ok(Slice(t, 5, 7))

ColumnKey(t) == <<int(Slice(t, 1, 3)), int(Slice(t, 5, 7))>>

RECURSIVE TakeDigits(_)
TakeDigits(s) ==
  IF s # <<>> /\ IsDigit(Head(s))
  THEN <<Head(s)>> \o TakeDigits(Tail(s)) ELSE <<>>

\* the numbers written in a line that starts L<digits> S<digits>, read as a
\* tokenizer would: L, blanks, digits, blanks, S, blanks, digits
WrittenKey(t) ==
  LET a == lstrip(Tail(t))
      l == TakeDigits(a)
      b == lstrip(SubSeq(a, Len(l) + 1, Len(a)))
      c == lstrip(Tail(b))
      s == TakeDigits(c)
  IN  <<DigitsValue(l), DigitsValue(s)>>

\* the line the loop body ran on last, stripped
LastLine == strip(key_word_input[line_no - 1])

EntryIsFiveLowercase(key) ==
  /\ key \in DOMAIN all_keyword_dict
  /\ Len(all_keyword_dict[key]) = 5
  /\ \A j \in 1..5 :
       /\ Len(all_keyword_dict[key][j]) >= 1
       /\ \A a \in 1..Len(all_keyword_dict[key][j]) :
            \A c \in 1..Len(all_keyword_dict[key][j][a]) :
              all_keyword_dict[key][j][a][c] \notin UpperChars

\* C1 (as amended): a line with a valid fixed-column prefix followed by
\* exactly five keyword tokens separated by space characters (one or more
\* spaces, no other separator) is stored under its (list, sentence) key as
\* exactly 5 entries, each a non-empty list of lowercase spellings.
C1_FiveSpaceSeparated ==
  (line_no > 1 /\ ValidPrefix(LastLine)
     /\ TokenCount(Remainder(LastLine), {" "}) = 5)
  => EntryIsFiveLowercase(ColumnKey(LastLine))

\* C1 (as claimed): the same for five whitespace-separated keyword tokens.
C1_FiveWhitespaceSeparated ==
  (line_no > 1 /\ ValidPrefix(LastLine)
     /\ TokenCount(Remainder(LastLine), Whitespace) = 5)
  => EntryIsFiveLowercase(ColumnKey(LastLine))

\* a five-token line with upper case letters and a '/' has been stored
C1_Witness ==
  /\ line_no > 1
  /\ ValidPrefix(LastLine)
  /\ TokenCount(Remainder(LastLine), {" "}) = 5
  /\ \E i \in 8..Len(LastLine) : LastLine[i] \in UpperChars
  /\ \E i \in 8..Len(LastLine) : LastLine[i] = "/"
  /\ EntryIsFiveLowercase(ColumnKey(LastLine))
  /\ \E j \in 1..5 : Len(all_keyword_dict[ColumnKey(LastLine)][j]) = 2

NonBlankBefore(n) ==
  { i \in 1..(n - 1) : strip(key_word_input[i]) # <<>> }

\* C2: on the embedded table the parse never raises, every line is stored
\* under the list and sentence number written in it, no two lines share a
\* key, and the returned table has exactly the 72 keys (0..11) x (0..5).
C2_EmbeddedTable ==
  key_word_input = key_word_list =>
    /\ ingest_pc # "ValueError"
    /\ Cardinality(DOMAIN all_keyword_dict) = Cardinality(NonBlankBefore(line_no))
    /\ (line_no > 1 /\ LastLine # <<>>) =>
         /\ list_number = Bound(WrittenKey(LastLine)[1])
         /\ sentence_number = Bound(WrittenKey(LastLine)[2])
         /\ WrittenKey(LastLine) \in DOMAIN all_keyword_dict
    /\ ingest_pc = "returned" =>
         /\ Cardinality(DOMAIN all_keyword_dict) = 72
         /\ DOMAIN all_keyword_dict = (0..11) \X (0..5)

\* the embedded table has been parsed to the end
C2_Witness ==
  /\ key_word_input = key_word_list
  /\ ingest_pc = "returned"
  /\ <<10, 3>> \in DOMAIN all_keyword_dict
  /\ Len(all_keyword_dict[<<10, 3>>][1]) = 2

AllPrefixesValid ==
  \A i \in 1..Len(key_word_input) :
    strip(key_word_input[i]) # <<>> => ValidPrefix(strip(key_word_input[i]))

\* C3: when every non-blank line has a valid prefix, whatever its number k
\* of space-separated keyword tokens (0 included) the parse never raises,
\* the line is stored under its key as an entry of length k, and the
\* returned table has an entry for the key of every non-blank line.
C3_NeverAborts ==
  AllPrefixesValid =>
    /\ ingest_pc # "ValueError"
    /\ (line_no > 1 /\ LastLine # <<>>) =>
         /\ ColumnKey(LastLine) \in DOMAIN all_keyword_dict
         /\ Len(all_keyword_dict[ColumnKey(LastLine)])
              = TokenCount(Remainder(LastLine), {" "})
    /\ ingest_pc = "returned" =>
         /\ line_no = Len(key_word_input) + 1
         /\ \A i \in 1..Len(key_word_input) :
              strip(key_word_input[i]) # <<>> =>
                ColumnKey(strip(key_word_input[i])) \in DOMAIN all_keyword_dict

\* a table whose first line has no keyword and whose later line has six
\* has been parsed to the end
C3_Witness ==
  /\ AllPrefixesValid
  /\ ingest_pc = "returned"
  /\ \E i, j \in 1..Len(key_word_input) :
       /\ i < j
       /\ ValidPrefix(strip(key_word_input[i]))
       /\ ValidPrefix(strip(key_word_input[j]))
       /\ TokenCount(Remainder(strip(key_word_input[i])), {" "}) = 0
       /\ TokenCount(Remainder(strip(key_word_input[j])), {" "}) = 6
       /\ Len(all_keyword_dict[ColumnKey(strip(key_word_input[i]))]) = 0
       /\ Len(all_keyword_dict[ColumnKey(strip(key_word_input[j]))]) = 6

----------------------------------------------------------------------------
(* Properties of parse_transcript *)

HasAlternatives(seg) ==
  seg.has_alternatives /\ Len(seg.alternatives) > 0

\* the block a segment stands for: its best alternative's words, then "."
RECURSIVE ExpectedTexts(_)
ExpectedTexts(segs) ==
  IF segs = <<>> THEN <<>>
  ELSE LET seg == segs[Len(segs)]
           before == ExpectedTexts(SubSeq(segs, 1, Len(segs) - 1))
       IN  IF HasAlternatives(seg)
           THEN before
                \o [i \in 1..Len(seg.alternatives[1].words) |->
                      lower(seg.alternatives[1].words[i].word)]
                \o << <<".">> >>
           ELSE before

\* C4: parse_transcript raises nothing and returns, for the segments with
\* alternatives in input order, the lowercased words of the first
\* alternative followed by one "." sentinel, and nothing for the others.
C4_BlockPerSegment ==
  /\ parse_pc # "UnboundLocalError"
  /\ parse_pc \in {"loop", "returned"} =>
       [i \in 1..Len(words) |-> words[i].word]
         = ExpectedTexts(SubSeq(response, 1, seg_no - 1))

\* the end times of the last words of the earlier segments
EarlierEndTimes(n) ==
  { total_seconds(response[j].alternatives[1].words[
        Len(response[j].alternatives[1].words)].end_offset) :
      j \in { k \in 1..(n - 1) :
                /\ HasAlternatives(response[k])
                /\ Len(response[k].alternatives[1].words) > 0 } }

\* C5: no call raises, and the "." that closes a segment has start = end =
\* the end time of the last word of that segment; the sentinel of a segment
\* whose best alternative has no word takes no time from an earlier segment.
C5_SentinelTime ==
  /\ parse_pc # "UnboundLocalError"
  /\ (parse_pc \in {"loop", "returned"} /\ seg_no > 1
        /\ HasAlternatives(response[seg_no - 1])) =>
       LET ws == response[seg_no - 1].alternatives[1].words
           dot == words[Len(words)]
       IN  /\ dot.word = <<".">>
           /\ dot.start_time = dot.end_time
           /\ Len(ws) > 0 =>
                dot.end_time = total_seconds(ws[Len(ws)].end_offset)
           /\ Len(ws) = 0 => dot.end_time \notin EarlierEndTimes(seg_no - 1)

\* the documented example: two segments of two words give six entries
TwoByTwo ==
  (parse_pc = "returned" /\ Len(response) = 2
     /\ \A i \in 1..2 : HasAlternatives(response[i])
                        /\ Len(response[i].alternatives[1].words) = 2)
  => /\ Len(words) = 6
     /\ words[3].word = <<".">> /\ words[6].word = <<".">>
     /\ words[6].start_time = words[5].end_time
     /\ words[6].end_time = words[5].end_time

----------------------------------------------------------------------------
(* Properties of recognize_all_spin and of the engine's requests *)

NotCalibration(p) == ~contains(p, <<"C","a","l","i","b","r","a","t","i","o","n">>)

\* the paths of a list that do not contain 'Calibration', in order
NonCalibration(ws) == SelectSeq(ws, NotCalibration)

\* the paths RecognizeFile was called with, in call order
CallFiles == [i \in 1..Len(calls) |-> calls[i].file]

\* C6 (as amended): RecognizeFile is called one path at a time in input
\* order, at most once for each path that does not contain 'Calibration'
\* and never for one that does; when no call raises, exactly once for each
\* such path; a call that raises ends the batch and no later path is
\* recognized.
C6_AtMostOnceInOrder ==
  /\ batch_pc = "loop" =>
       CallFiles = NonCalibration(SubSeq(all_wavs, 1, wav_no - 1))
  /\ batch_pc = "returned" => CallFiles = NonCalibration(all_wavs)
  /\ batch_pc = "raised" =>
       CallFiles = NonCalibration(SubSeq(all_wavs, 1, wav_no))

\* C6 (as claimed): once the batch has ended, RecognizeFile has been called
\* exactly once for each path without 'Calibration', in input order.
C6_ExactlyOnce ==
  batch_pc \in {"returned", "raised"} => CallFiles = NonCalibration(all_wavs)

\* a batch with a Calibration path between two others has returned
C6_Witness ==
  /\ batch_pc = "returned"
  /\ Len(all_wavs) = 3
  /\ ~NotCalibration(all_wavs[2])
  /\ CallFiles = <<all_wavs[1], all_wavs[3]>>

NonCalibrationIndexes == { i \in 1..Len(all_wavs) : NotCalibration(all_wavs[i]) }

\* the response returned to the call made for the path at index i
ResponseFor(i) ==
  [of |-> all_wavs[i],
   call |-> Cardinality({ j \in NonCalibrationIndexes : j <= i })]

\* the last index of a recognized path with this base name
LastWithName(name) ==
  CHOOSE i \in NonCalibrationIndexes :
    /\ basename(all_wavs[i]) = name
    /\ \A j \in NonCalibrationIndexes : basename(all_wavs[j]) = name => j <= i

\* C7 (as amended): when every call succeeds, the returned mapping has
\* exactly one entry per distinct base name of the paths that do not contain
\* 'Calibration', holding the response returned for the last such path with
\* that base name, and nothing else.
C7_EntryPerBaseName ==
  batch_pc = "returned" =>
    /\ DOMAIN all_results
         = { basename(all_wavs[i]) : i \in NonCalibrationIndexes }
    /\ \A name \in DOMAIN all_results :
         all_results[name] = ResponseFor(LastWithName(name))

\* C7 (as claimed): when every call succeeds, the returned mapping has one
\* entry per (distinct) path without 'Calibration', under its base name and
\* holding a response returned for that path.
C7_EntryPerPath ==
  batch_pc = "returned" =>
    /\ Cardinality(DOMAIN all_results)
         = Cardinality({ all_wavs[i] : i \in NonCalibrationIndexes })
    /\ \A i \in NonCalibrationIndexes :
         /\ basename(all_wavs[i]) \in DOMAIN all_results
         /\ \E j \in NonCalibrationIndexes :
              /\ all_wavs[j] = all_wavs[i]
              /\ all_results[basename(all_wavs[i])] = ResponseFor(j)

\* a batch has returned two entries, one of them for a path in a directory
C7_Witness ==
  /\ batch_pc = "returned"
  /\ Len(all_wavs) = 3
  /\ ~NotCalibration(all_wavs[2])
  /\ Cardinality(DOMAIN all_results) = 2
  /\ \E i \in NonCalibrationIndexes :
       /\ basename(all_wavs[i]) # all_wavs[i]
       /\ all_results[basename(all_wavs[i])] = ResponseFor(i)

\* C8: every request a batch sends asks for word time offsets.
C8_TimingsEnabled ==
  \A i \in 1..Len(calls) :
    calls[i].request # NoRequest =>
      calls[i].request.config.enable_word_time_offsets

\* C9: every request carries, when it is sent, the punctuation flags of the
\* engine's current model: automatic only for medical_conversation,
\* automatic and spoken for medical_dictation, none for any other model.
C9_PunctuationByModel ==
  [][last_request' # last_request =>
       /\ last_request'.config.enable_automatic_punctuation
            = (_model' \in {"medical_conversation", "medical_dictation"})
       /\ last_request'.config.enable_spoken_punctuation
            = (_model' = "medical_dictation")]_vars

\* C10: a request for a path that does not end in '.wav' carries the
\* auto-detect decoding configuration; the explicit one goes with waveforms
\* only.
C10_AutoDecodingForFiles ==
  /\ last_request.content.kind = "file" =>
       last_request.config.decoding = "auto"
  /\ last_request.config.decoding = "explicit" =>
       last_request.content.kind = "waveform"

====
